---------------------------- MODULE Spec2Model ----------------------------
(***************************************************************************)
(* A model of the ImPatience solitaire solver: the game state and its      *)
(* canonical hash (src/solitaire.py, GameState), the transition engine     *)
(* (Game.take_action, Game.auto_proceed, Game.get_successors) and the      *)
(* search drivers (src/search.py, dfs and a_star_solver).                  *)
(*                                                                         *)
(* Strings are sequences of one-character strings, so that a card is the   *)
(* token the source handles ('r1' is <<"r","1">>, 'r' is <<"r">>, the      *)
(* flower is <<"f">>) and the canonical string of a state is built, sorted *)
(* and concatenated character by character as __hash__ builds it.  The     *)
(* integer that Python's hash() makes of that string is taken to be        *)
(* injective: a state's hash is its canonical string.                      *)
(*                                                                         *)
(* Positions in actions are 0-based, as in the source; sequences are       *)
(* 1-based, so column i of the source is deck[i + 1].                      *)
(***************************************************************************)
EXTENDS Integers, Sequences, FiniteSets, TLC

(***************************************************************************)
(* Sizes.  The source plays 8 columns, ranks 1..9 and 4 cards of each      *)
(* colour; the model plays the same rules on a smaller table.              *)
(***************************************************************************)
\* GameState.DECK_COLUMN_NUM (8 in the source)
DECK_COLUMN_NUM == 2
\* the top rank, the literal 9 of is_goal_state and is_valid_state
TOP_RANK == 2
\* the number of cards of one colour, the literal 4 of get_successors
COLOR_COPIES == 2
\* GameState.ORIGINAL_BUFFER_SIZE
ORIGINAL_BUFFER_SIZE == 3
\* the longest solution the walk of the transition engine follows
MaxSteps == 5

\* Python's None where the source puts it in place of a number
None == -1
\* a call that returned None in place of a state
NoState == [none |-> TRUE]
\* a call that ended in an AssertionError ('auto proceed failure')
Raised == [raised |-> "AssertionError"]
KeyError == [raised |-> "KeyError"]

GOALS == <<<<"r">>, <<"g">>, <<"b">>>>
GoalSet == {GOALS[k] : k \in 1..Len(GOALS)}

(***************************************************************************)
(* Strings                                                                 *)
(***************************************************************************)
\* the code points of the characters that sorted() compares
Ord == ("1" :> 49) @@ ("2" :> 50) @@ ("3" :> 51) @@ ("4" :> 52) @@ ("5" :> 53)
       @@ ("6" :> 54) @@ ("7" :> 55) @@ ("8" :> 56) @@ ("9" :> 57)
       @@ ("b" :> 98) @@ ("f" :> 102) @@ ("g" :> 103) @@ ("r" :> 114)
       @@ (" " :> 32) @@ ("0" :> 48)

Digits == <<"0", "1", "2", "3", "4", "5", "6", "7", "8", "9">>

\* str(n) for 0 <= n <= 9
StrOfNum(n) == <<Digits[n + 1]>>

\* int(s) for a string of one digit
IntOfStr(s) == (CHOOSE k \in 1..Len(Digits) : Digits[k] = s[1]) - 1

MinOf(S) == CHOOSE x \in S : \A y \in S : x <= y

\* the element of a set of one element; in The({F(v) : v \in {e}}) the value e is worked
\* out once, whatever the number of times F reads v
The(S) == CHOOSE x \in S : TRUE

\* a < b on Python strings: by the first differing character, else by length
StrLess(a, b) ==
    LET n == IF Len(a) < Len(b) THEN Len(a) ELSE Len(b)
        diff == {i \in 1..n : a[i] # b[i]}
    IN  IF diff = {} THEN Len(a) < Len(b)
        ELSE Ord[a[MinOf(diff)]] < Ord[b[MinOf(diff)]]

\* x put at its place in the sorted sequence s
InsertSorted(x, s) ==
    LET k == Cardinality({i \in 1..Len(s) : ~StrLess(x, s[i])})
    IN  SubSeq(s, 1, k) \o <<x>> \o SubSeq(s, k + 1, Len(s))

RECURSIVE Sorted(_)
\* sorted(strs)
Sorted(strs) ==
    IF strs = <<>> THEN <<>>
    ELSE The({InsertSorted(Head(strs), rest) : rest \in {Sorted(Tail(strs))}})

RECURSIVE Join(_, _)
\* sep.join(strs)
Join(sep, strs) ==
    IF strs = <<>> THEN <<>>
    ELSE IF Len(strs) = 1 THEN strs[1]
    ELSE strs[1] \o sep \o Join(sep, Tail(strs))

RECURSIVE ConcatAll(_)
\* the concatenation of a sequence of sequences
ConcatAll(ss) == IF ss = <<>> THEN <<>> ELSE Head(ss) \o ConcatAll(Tail(ss))

\* the elements of s from the one at 1-based index k removed (list.pop(k - 1))
RemoveAt(s, k) == SubSeq(s, 1, k - 1) \o SubSeq(s, k + 1, Len(s))

\* list.pop()
Pop(s) == SubSeq(s, 1, Len(s) - 1)

\* s[-1]
Last(s) == s[Len(s)]

\* list.count(x)
Count(s, x) == Cardinality({i \in 1..Len(s) : s[i] = x})

(***************************************************************************)
(* Cards                                                                   *)
(***************************************************************************)
get_num(card) == IF Len(card) > 1 THEN IntOfStr(Tail(card)) ELSE None

\* card[0], a string of one character
get_type(card) == <<card[1]>>

FLOWER == <<"f">>

\* the target of the flower's CollectAction, the string 'flower'
FLOWER_TARGET == <<"f", "l", "o", "w", "e", "r">>

(***************************************************************************)
(* GameState                                                               *)
(***************************************************************************)
\* GameState.__init__
NewGameState ==
    [buffer_area |-> <<>>,
     buffer_size |-> ORIGINAL_BUFFER_SIZE,
     goal_buffer |-> [x \in GoalSet |-> 0],
     collected |-> [x \in GoalSet |-> FALSE],
     deck |-> [i \in 1..DECK_COLUMN_NUM |-> <<>>],
     flower_in_deck |-> TRUE,
     solution |-> <<>>,
     history |-> {},
     locked_to_keys |-> <<>>,
     key_to_locked |-> <<>>]

\* str(self.goal_buffer.values()): 'dict_values([0, 0, 0])', in the order of GOALS
GoalStr(goal_buffer) ==
    <<"d", "i", "c", "t", "_", "v", "a", "l", "u", "e", "s", "(", "[">>
    \o Join(<<",", " ">>, [k \in 1..Len(GOALS) |-> StrOfNum(goal_buffer[GOALS[k]])])
    \o <<"]", ")">>

\* str(self.flower_in_deck)
BoolStr(b) == IF b THEN <<"T", "r", "u", "e">> ELSE <<"F", "a", "l", "s", "e">>

\* Canonical with the sorting left out
CanonicalUnsorted(deck, buffer_area, goal_buffer, flower_in_deck) ==
    Join(<<" ">>, [i \in 1..Len(deck) |-> ConcatAll(deck[i])])
    \o Join(<<" ">>, buffer_area) \o GoalStr(goal_buffer) \o BoolStr(flower_in_deck)

\* Canonical with the foundations and the columns left out
CanonicalBufferOnly(deck, buffer_area, goal_buffer, flower_in_deck) ==
    Join(<<" ">>, Sorted(buffer_area)) \o BoolStr(flower_in_deck)

\* the string __hash__ builds, from the deck, the buffer, the goals and the flower
Canonical(deck, buffer_area, goal_buffer, flower_in_deck) ==
    The({Join(<<" ">>, columns) \o Join(<<" ">>, cards)
            \o GoalStr(goal_buffer) \o BoolStr(flower_in_deck) :
         columns \in {The({Sorted(joined) :
                              joined \in {[i \in 1..Len(deck) |-> ConcatAll(deck[i])]}})},
         cards \in {The({Sorted(list) : list \in {buffer_area}})}})

\* GameState.__hash__
Hash(s) == Canonical(s.deck, s.buffer_area, s.goal_buffer, s.flower_in_deck)

\* GameState.__eq__
Eq(s, t) == Hash(s) = Hash(t)

\* sum(self.goal_buffer.values())
GoalSum(s) == s.goal_buffer[GOALS[1]] + s.goal_buffer[GOALS[2]] + s.goal_buffer[GOALS[3]]

\* GameState.__gt__
Gt(s, t) == GoalSum(s) > GoalSum(t)

\* GameState.__lt__, which total_ordering makes of __gt__ and __eq__
Lt(s, t) == ~Gt(s, t) /\ ~Eq(s, t)

\* record with nothing added to the history
recordNothing(s) == s

\* GameState.record
record(s) == [s EXCEPT !.history = @ \cup {Hash(s)}]


(***************************************************************************)
(* Actions: the three namedtuples, with a tag in place of the class        *)
(***************************************************************************)
MoveAction(card, source, source_position, to, to_position) ==
    [kind |-> "MoveAction", card |-> card, source |-> source,
     source_position |-> source_position, to |-> to, to_position |-> to_position]

ScoreAction(card, source, source_position) ==
    [kind |-> "ScoreAction", card |-> card, source |-> source,
     source_position |-> source_position]

CollectAction(target) == [kind |-> "CollectAction", target |-> target]

(***************************************************************************)
(* Dictionaries: functions; the empty dictionary is <<>>                   *)
(***************************************************************************)
\* d[k] = v
DictSet(d, k, v) == (k :> v) @@ d

\* del d[k] for every k of ks (each present in d)
DictDel(d, ks) ==
    IF DOMAIN d \subseteq ks THEN <<>> ELSE [x \in (DOMAIN d) \ ks |-> d[x]]

(***************************************************************************)
(* Game: the lock bookkeeping                                              *)
(***************************************************************************)
\* Game.is_goal_state
is_goal_state(state) == \A x \in GoalSet : state.goal_buffer[x] = TOP_RANK

\* Game._lock_state
lock_state(state, action) ==
    IF action.kind \in {"ScoreAction", "CollectAction"} THEN state
    ELSE LET locked == <<action.to, action.to_position>>
             keys == <<<<action.source, action.source_position>>, locked>>
         IN  [state EXCEPT
                 !.locked_to_keys = DictSet(@, locked, keys),
                 !.key_to_locked = DictSet(DictSet(@, keys[1], locked), keys[2], locked)]

\* unlock(key) of Game._unlock_state; a del of a missing key raises (KeyError)
unlock(state, key) ==
    IF state = Raised THEN Raised
    ELSE IF key \notin DOMAIN state.key_to_locked THEN state
    ELSE LET locked == state.key_to_locked[key]
         IN  IF locked \notin DOMAIN state.locked_to_keys THEN Raised
             ELSE LET lockers == state.locked_to_keys[locked]
                      lockerSet == {lockers[k] : k \in 1..Len(lockers)}
                  IN  IF \/ Cardinality(lockerSet) # Len(lockers)
                         \/ ~(lockerSet \subseteq DOMAIN state.key_to_locked)
                      THEN Raised
                      ELSE [state EXCEPT
                               !.key_to_locked = DictDel(@, lockerSet),
                               !.locked_to_keys = DictDel(@, {locked})]

RECURSIVE UnlockAll(_, _)
\* for k in keys: unlock(k)
UnlockAll(state, keys) ==
    IF keys = <<>> THEN state
    ELSE The({UnlockAll(next, Tail(keys)) : next \in {unlock(state, Head(keys))}})

\* the keys a CollectAction of a colour unlocks, read from the state it has produced
CollectKeys(state, target) ==
    LET bufferIdx == SelectSeq([k \in 1..Len(state.buffer_area) |-> k - 1],
                               LAMBDA i : state.buffer_area[i + 1] = target)
        deckIdx == SelectSeq([k \in 1..Len(state.deck) |-> k - 1],
                             LAMBDA i : /\ state.deck[i + 1] # <<>>
                                        /\ Last(state.deck[i + 1]) = target)
    IN  [k \in 1..Len(bufferIdx) |-> <<"buffer", bufferIdx[k]>>]
        \o [k \in 1..Len(deckIdx) |-> <<"deck", deckIdx[k]>>]

\* Game._unlock_state
unlock_state(state, action) ==
    IF action.kind = "MoveAction"
    THEN UnlockAll(state, <<<<action.source, action.source_position>>,
                            <<action.to, action.to_position>>>>)
    ELSE IF action.kind = "ScoreAction"
    THEN UnlockAll(state, <<<<action.source, action.source_position>>>>)
    ELSE IF action.target = FLOWER_TARGET THEN state
    ELSE UnlockAll(state, CollectKeys(state, action.target))

\* Game._is_action_locked
is_action_locked(state, action) ==
    IF action.kind \in {"ScoreAction", "CollectAction"} THEN FALSE
    ELSE <<action.source, action.source_position>> \in DOMAIN state.locked_to_keys

(***************************************************************************)
(* Game.take_action                                                        *)
(***************************************************************************)
\* the card leaves its source: deck[source_position].pop() or buffer_area.pop(source_position)
TakeFromSource(state, action) ==
    IF action.source = "deck"
    THEN [state EXCEPT !.deck[action.source_position + 1] = Pop(@)]
    ELSE IF action.source = "buffer"
    THEN [state EXCEPT !.buffer_area = RemoveAt(@, action.source_position + 1)]
    ELSE state

\* the 1-based index of the first column whose top card is the flower, 0 if none
FirstFlowerColumn(deck) ==
    LET cols == {i \in 1..Len(deck) : deck[i] # <<>> /\ Last(deck[i]) = FLOWER}
    IN  IF cols = {} THEN 0 ELSE MinOf(cols)

\* the copy of the state with the action's cards moved (take_action, before the hash test)
ApplyAction(state, action) ==
    IF action.kind = "MoveAction"
    THEN LET taken == TakeFromSource(state, action)
         IN  IF action.to = "deck"
             THEN [taken EXCEPT !.deck[action.to_position + 1] = Append(@, action.card)]
             ELSE IF action.to = "buffer"
             THEN [taken EXCEPT !.buffer_area = Append(@, action.card)]
             ELSE taken
    ELSE IF action.kind = "ScoreAction"
    THEN [TakeFromSource(state, action) EXCEPT
             !.goal_buffer[get_type(action.card)] = get_num(action.card)]
    ELSE IF action.target = FLOWER_TARGET
    THEN LET i == FirstFlowerColumn(state.deck)
         IN  [state EXCEPT !.flower_in_deck = FALSE,
                           !.deck = IF i = 0 THEN @
                                    ELSE [state.deck EXCEPT ![i] = Pop(state.deck[i])]]
    ELSE [state EXCEPT
             !.buffer_size = @ - 1,
             !.buffer_area = SelectSeq(@, LAMBDA x : x # action.target),
             !.deck = [i \in 1..Len(state.deck) |->
                          IF state.deck[i] # <<>> /\ Last(state.deck[i]) = action.target
                          THEN Pop(state.deck[i]) ELSE state.deck[i]],
             !.collected[action.target] = TRUE]

\* self._lock_state(new_state, action) and then self._unlock_state(new_state, action)
LockThenUnlock(new_state, action) ==
    The({unlock_state(locked, action) : locked \in {lock_state(new_state, action)}})

\* Commit with the solution left as it was when the action is a ScoreAction
CommitScoreUnlisted(unlocked, action) ==
    IF unlocked = Raised THEN Raised
    ELSE IF action.kind = "ScoreAction" THEN record(unlocked)
    ELSE [record(unlocked) EXCEPT !.solution = Append(@, action)]

\* the end of take_action: the lock is set and lifted, the hash recorded and the action
\* appended to the solution
Commit(unlocked, action) ==
    IF unlocked = Raised THEN Raised
    ELSE [record(unlocked) EXCEPT !.solution = Append(@, action)]

\* TestHistory with the test of the history left out
TestHistoryNot(new_state, action) ==
    The({Commit(unlocked, action) : unlocked \in {LockThenUnlock(new_state, action)}})

\* take_action from the test of the history on: NoState when the configuration made is
\* one of the history
TestHistory(new_state, action) ==
    IF Hash(new_state) \in new_state.history THEN NoState
    ELSE The({Commit(unlocked, action) : unlocked \in {LockThenUnlock(new_state, action)}})

\* take_action with auto_proceed=False: NoState when the action is locked or its
\* result is a configuration of the history
TakeStep(state, action) ==
    IF is_action_locked(state, action) THEN NoState
    ELSE The({TestHistory(new_state, action) : new_state \in {ApplyAction(state, action)}})

\* AutoTarget with the card looked for anywhere in the column, not on its top only
AutoTargetBuried(state) ==
    LET min_value == MinOf({state.goal_buffer[x] : x \in GoalSet})
        color == GOALS[MinOf({k \in 1..Len(GOALS) : state.goal_buffer[GOALS[k]] = min_value})]
        target_card == color \o StrOfNum(min_value + 1)
        cols == {i \in 1..Len(state.deck) :
                    \E n \in 1..Len(state.deck[i]) : state.deck[i][n] = target_card}
    IN  IF cols = {} THEN None ELSE MinOf(cols) - 1

\* the 0-based column auto_put_to_goal scores from, None if it returns None
AutoTarget(state) ==
    LET min_value == MinOf({state.goal_buffer[x] : x \in GoalSet})
        color == GOALS[MinOf({k \in 1..Len(GOALS) : state.goal_buffer[GOALS[k]] = min_value})]
        target_card == color \o StrOfNum(min_value + 1)
        cols == {i \in 1..Len(state.deck) :
                    state.deck[i] # <<>> /\ Last(state.deck[i]) = target_card}
    IN  IF cols = {} THEN None ELSE MinOf(cols) - 1

\* the card auto_put_to_goal looks for
AutoCard(state) ==
    LET min_value == MinOf({state.goal_buffer[x] : x \in GoalSet})
        color == GOALS[MinOf({k \in 1..Len(GOALS) : state.goal_buffer[GOALS[k]] = min_value})]
    IN  color \o StrOfNum(min_value + 1)

RECURSIVE AutoPutLoop(_)
RECURSIVE AssertThenLoop(_)
\* the while loop of auto_proceed
AutoPutLoop(state) ==
    IF AutoTarget(state) = None THEN state
    ELSE The({AssertThenLoop(new_state) :
                 new_state \in {TakeStep(state, ScoreAction(AutoCard(state), "deck",
                                                            AutoTarget(state)))}})

\* assert state, 'auto proceed failure', and on with the loop
AssertThenLoop(new_state) ==
    IF new_state \in {NoState, Raised} THEN Raised ELSE AutoPutLoop(new_state)

\* whether auto_proceed finds the flower on top of a column
FlowerOnTop(state) ==
    /\ state.flower_in_deck
    /\ \E i \in 1..Len(state.deck) : state.deck[i] # <<>> /\ Last(state.deck[i]) = FLOWER

\* Game.auto_proceed
auto_proceed(state) ==
    IF FlowerOnTop(state)
    THEN The({AssertThenLoop(new_state) :
                 new_state \in {TakeStep(state, CollectAction(FLOWER_TARGET))}})
    ELSE AutoPutLoop(state)

\* the last lines of take_action: the cascade, when it is asked for
ThenAutoProceed(new_state, auto) ==
    IF new_state \in {NoState, Raised} THEN new_state
    ELSE IF auto THEN auto_proceed(new_state) ELSE new_state

\* Game.take_action
take_action(state, action, auto) ==
    The({ThenAutoProceed(new_state, auto) : new_state \in {TakeStep(state, action)}})

(***************************************************************************)
(* Game.get_successors                                                     *)
(***************************************************************************)
\* the truth value Python gives get_num(card): None and 0 are false
Truthy(n) == n # None /\ n # 0

\* the 0-based indices of a list
Indices(s) == [k \in 1..Len(s) |-> k - 1]

\* whether card may be put on column j, coming from index i (of the deck or of the buffer)
CanStack(state, card, i, j) ==
    LET col == state.deck[j + 1]
    IN  \/ col = <<>>
        \/ /\ Truthy(get_num(card))
           /\ j # i
           /\ get_type(Last(col)) # get_type(card)
           /\ get_num(Last(col)) = get_num(card) + 1

\* CanScore with any higher rank let through
CanScoreAnyHigher(state, card) ==
    /\ Truthy(get_num(card))
    /\ state.goal_buffer[get_type(card)] <= get_num(card) - 1

\* whether the card may be scored
CanScore(state, card) ==
    /\ Truthy(get_num(card))
    /\ state.goal_buffer[get_type(card)] = get_num(card) - 1

\* the condition of try_collect_all_collectables
CanCollect(state, color) ==
    /\ ~state.collected[color]
    /\ \/ Len(state.buffer_area) - state.buffer_size # 0
       \/ \E k \in 1..Len(state.buffer_area) : state.buffer_area[k] = color
    /\ Cardinality({i \in 1..Len(state.deck) :
                       state.deck[i] # <<>> /\ Last(state.deck[i]) = color})
       + Count(state.buffer_area, color) = COLOR_COPIES

\* the Score and Collect actions get_successors applies, in the order it applies them
ImportantActions(state) ==
    LET collects == SelectSeq(GOALS, LAMBDA color : CanCollect(state, color))
        fromDeck(i) ==
            IF state.deck[i + 1] # <<>> /\ CanScore(state, Last(state.deck[i + 1]))
            THEN <<ScoreAction(Last(state.deck[i + 1]), "deck", i)>> ELSE <<>>
        fromBuffer(i) ==
            IF CanScore(state, state.buffer_area[i + 1])
            THEN <<ScoreAction(state.buffer_area[i + 1], "buffer", i)>> ELSE <<>>
    IN  [k \in 1..Len(collects) |-> CollectAction(collects[k])]
        \o ConcatAll([k \in 1..Len(state.deck) |-> fromDeck(k - 1)])
        \o ConcatAll([k \in 1..Len(state.buffer_area) |-> fromBuffer(k - 1)])

\* BufferHasRoom, off by one
BufferHasRoomOffByOne(state) == Len(state.buffer_area) <= state.buffer_size

\* whether get_successors may park a card in the buffer
BufferHasRoom(state) == Len(state.buffer_area) < state.buffer_size

\* the MoveActions get_successors applies, in the order it applies them
OtherActions(state) ==
    LET cols == SelectSeq(Indices(state.deck), LAMBDA j : TRUE)
        deckMoves(i) ==
            IF state.deck[i + 1] = <<>> THEN <<>>
            ELSE LET card == Last(state.deck[i + 1])
                     to == SelectSeq(cols, LAMBDA j : CanStack(state, card, i, j))
                 IN  [k \in 1..Len(to) |-> MoveAction(card, "deck", i, "deck", to[k])]
                     \o (IF BufferHasRoom(state)
                         THEN <<MoveAction(card, "deck", i, "buffer", None)>> ELSE <<>>)
        bufferMoves(i) ==
            LET card == state.buffer_area[i + 1]
                to == SelectSeq(cols, LAMBDA j : CanStack(state, card, i, j))
            IN  [k \in 1..Len(to) |-> MoveAction(card, "buffer", i, "deck", to[k])]
    IN  ConcatAll([k \in 1..Len(state.deck) |-> deckMoves(k - 1)])
        \o ConcatAll([k \in 1..Len(state.buffer_area) |-> bufferMoves(k - 1)])

\* list(set(states)) up to its order: of the states that are equal (by their hash) the
\* first stays
Distinct(states) ==
    The({The({[k \in 1..Len(idx) |-> list[idx[k]]] :
                 idx \in {SelectSeq([k \in 1..Len(list) |-> k],
                                    LAMBDA k : \A m \in 1..(k - 1) : hashes[m] # hashes[k])}}) :
            list \in {states},
            hashes \in {[k \in 1..Len(states) |-> Hash(states[k])]}})

\* the successors by the actions of a list, a None for each one rejected
TakeAll(state, actions) ==
    The({[k \in 1..Len(list) |-> take_action(state, list[k], TRUE)] : list \in {actions}})

\* what get_successors returns of the two lists it has built: Raised when an assertion
\* of the cascade failed; the second list without its Nones and its duplicates
ReturnLists(important_states, other_state) ==
    IF \/ \E k \in 1..Len(important_states) : important_states[k] = Raised
       \/ \E k \in 1..Len(other_state) : other_state[k] = Raised
    THEN Raised
    ELSE [important |-> important_states,
          other |-> Distinct(SelectSeq(other_state, LAMBDA t : t # NoState))]

\* Game.get_successors on a state that is not a goal state: the two lists, or Raised.
\* The second list holds the elements of a set: its order is not fixed.
get_successors(state) ==
    The({ReturnLists(important_states, other_state) :
            important_states \in {TakeAll(state, ImportantActions(state))},
            other_state \in {TakeAll(state, OtherActions(state))}})

(***************************************************************************)
(* Game.is_valid_state and Game.take_actions                               *)
(***************************************************************************)
\* the cards of the deck and of the buffer, flattened
AllCards(state) == ConcatAll(state.deck) \o state.buffer_area

\* Game.is_valid_state: the four assertions hold
is_valid_state(state) ==
    LET cards == AllCards(state)
        \* the cards is_valid_state files under their type: the two-character cards of
        \* the deck and every card of the buffer
        filed == SelectSeq(ConcatAll(state.deck), LAMBDA c : Len(c) = 2) \o state.buffer_area
        types == {get_type(filed[k]) : k \in 1..Len(filed)}
        nums(x) == {get_num(filed[k]) : k \in {m \in 1..Len(filed) : get_type(filed[m]) = x}}
        asserted == /\ Len(state.buffer_area) <= state.buffer_size
                    /\ (Count(cards, FLOWER) > 0) = state.flower_in_deck
                    /\ \A x \in GoalSet : Count(cards, x) = COLOR_COPIES \/ state.collected[x]
    IN  IF ~asserted THEN FALSE
        \* goal_buffer[x] of a type that is no suit, the flower in the buffer: a KeyError,
        \* which the except clause does not catch
        ELSE IF types \ GoalSet # {} THEN KeyError
        ELSE \A x \in types : ((state.goal_buffer[x] + 1)..TOP_RANK) \ nums(x) = {}

RECURSIVE take_actions(_, _)
\* Game.take_actions: a rejected action leaves None, and the next action raises on it
take_actions(state, actions) ==
    IF actions = <<>> THEN state
    ELSE IF state \in {NoState, Raised} THEN Raised
    ELSE take_actions(take_action(state, Head(actions), FALSE), Tail(actions))

RECURSIVE Lineage(_, _)
\* the states take_actions goes through, the first one included
Lineage(state, actions) ==
    IF actions = <<>> \/ state \in {NoState, Raised} THEN <<state>>
    ELSE <<state>> \o Lineage(take_action(state, Head(actions), FALSE), Tail(actions))

(***************************************************************************)
(* The deals.  A deal holds every card once: each rank of each suit,       *)
(* COLOR_COPIES cards of each colour and the flower.                       *)
(***************************************************************************)
\* b<TOP> g<TOP> r<TOP> ... b1 g1 r1: the cards the cascade scores from the top down
NumberRun ==
    [k \in 1..(Len(GOALS) * TOP_RANK) |->
        GOALS[Len(GOALS) - ((k - 1) % Len(GOALS))]
        \o StrOfNum(TOP_RANK - ((k - 1) \div Len(GOALS)))]

\* r1 g1 b1 ... r<TOP> g<TOP> b<TOP>
AscendingRun == [k \in 1..Len(NumberRun) |-> NumberRun[Len(NumberRun) - k + 1]]

\* r r .. g g .. b b ..
ColorRun ==
    [k \in 1..(Len(GOALS) * COLOR_COPIES) |-> GOALS[((k - 1) \div COLOR_COPIES) + 1]]

\* the packs dealt, bottom card first
Packs ==
    <<ColorRun \o <<FLOWER>> \o AscendingRun,
      AscendingRun \o <<FLOWER>> \o ColorRun,
      ColorRun \o SubSeq(NumberRun, 1, Len(NumberRun) - 1) \o <<FLOWER>>
          \o SubSeq(NumberRun, Len(NumberRun), Len(NumberRun)),
      NumberRun \o ColorRun \o <<FLOWER>>>>

\* the numbers of cards dealt on the second column, from the top of the pack
Cuts == {1, 2, 3}

\* _get_start_state on the file of a deal: the first column gets the bottom of the pack,
\* the second its top `cut` cards
StartState(pack, cut) ==
    record([NewGameState EXCEPT
               !.deck = [i \in 1..DECK_COLUMN_NUM |->
                            IF i = 1 THEN SubSeq(pack, 1, Len(pack) - cut)
                            ELSE IF i = 2 THEN SubSeq(pack, Len(pack) - cut + 1, Len(pack))
                            ELSE <<>>]])

\* the start states of the walk
StartStates == {StartState(Packs[p], cut) : p \in 1..Len(Packs), cut \in Cuts}

(***************************************************************************)
(* State                                                                   *)
(***************************************************************************)
VARIABLES
    start_state,   \* Game.start_state
    state,         \* the state the caller of the transition engine holds
    dfs_pc,        \* dfs: "idle", "loop" in the while loop, "returned", "raised"
    dfs_dp,        \* dfs: the stack dp
    dfs_met,       \* dfs: the set met (of hashes: the set compares by __eq__)
    dfs_state,     \* dfs: the state popped last
    dfs_ret,       \* dfs: the value returned
    as_max_depth,  \* a_star_solver: the argument max_depth
    as_pc,         \* a_star_solver: "idle", "loop" in the while loop, "returned", "raised"
    as_dp,         \* a_star_solver: the heap dp, a list of (f, cost, state)
    as_met,        \* a_star_solver: the set met (of hashes)
    as_state,      \* a_star_solver: the state popped last
    as_pops,       \* a_star_solver: the number of heappop calls
    as_ret         \* a_star_solver: the value returned, or the exception raised

dfsVars == <<dfs_pc, dfs_dp, dfs_met, dfs_state, dfs_ret>>

asVars == <<as_max_depth, as_pc, as_dp, as_met, as_state, as_pops, as_ret>>

vars == <<start_state, state, dfsVars, asVars>>

AStarIdle ==
    /\ as_max_depth = None
    /\ as_pc = "idle"
    /\ as_dp = <<>>
    /\ as_met = {}
    /\ as_state = NoState
    /\ as_pops = 0
    /\ as_ret = NoState

DfsIdle ==
    /\ dfs_pc = "idle"
    /\ dfs_dp = <<>>
    /\ dfs_met = {}
    /\ dfs_state = NoState
    /\ dfs_ret = NoState

(***************************************************************************)
(* The walk of the transition engine: a caller that keeps asking for the   *)
(* successors of the state it holds and moves to one of them.  The states  *)
(* of one chain have different hashes, so that the lru_cache of            *)
(* get_successors never answers for the caller of one chain.               *)
(***************************************************************************)
Init ==
    /\ start_state \in StartStates
    /\ is_valid_state(start_state) = TRUE
    /\ state = start_state
    /\ DfsIdle
    /\ AStarIdle

\* the states of a list of successors, None left out; none when get_successors raised
Offered(succ, list) ==
    IF succ = Raised THEN {} ELSE {succ[list][k] : k \in 1..Len(succ[list])} \ {NoState}

\* the caller moves to a successor by a Score or a Collect
StepImportant ==
    /\ ~is_goal_state(state)
    /\ Len(state.solution) < MaxSteps
    /\ \E t \in Offered(get_successors(state), "important") : state' = t
    /\ UNCHANGED <<start_state, dfsVars, asVars>>

\* the caller moves to a successor by a relocation
StepOther ==
    /\ ~is_goal_state(state)
    /\ Len(state.solution) < MaxSteps
    /\ \E t \in Offered(get_successors(state), "other") : state' = t
    /\ UNCHANGED <<start_state, dfsVars, asVars>>

Next == StepImportant \/ StepOther

Spec == Init /\ [][Next]_vars

(***************************************************************************)
(* search.dfs.  The stack dp is a list of frames, one for each expansion   *)
(* that pushed something: the successors by a Score or a Collect in the    *)
(* order get_successors made them, and above them the successors by a      *)
(* relocation, which list(set(...)) hands over in an order the program     *)
(* does not fix; the order of these is chosen when they are popped.        *)
(* get_successors is called once for each hash (a hash is pushed once, and *)
(* the hash of the start state is in every history), so that its lru_cache *)
(* never answers.                                                          *)
(***************************************************************************)
\* the deals dfs is run on
DfsPacks == {1, 2, 4}

DfsStartStates == {StartState(Packs[p], cut) : p \in DfsPacks, cut \in Cuts}

\* what a set of GameStates knows an element by: its hash; None is known by a string
\* that is no canonical string
Key(s) == IF s = NoState THEN <<"None">> ELSE Hash(s)

\* the states dp.pop() may return
Tops(dp) ==
    IF dp[Len(dp)].loose # {} THEN dp[Len(dp)].loose ELSE {Last(dp[Len(dp)].fixed)}

\* dp left as it is: a pop that removes nothing
DequePeek(dp, s) == dp

\* dp after dp.pop() has returned s
DequePop(dp, s) ==
    LET top == dp[Len(dp)]
        rest == IF top.loose # {} THEN [top EXCEPT !.loose = @ \ {s}]
                ELSE [top EXCEPT !.fixed = Pop(@)]
    IN  IF rest.loose = {} /\ rest.fixed = <<>> THEN Pop(dp) ELSE Append(Pop(dp), rest)

RECURSIVE NotMet(_, _)
\* the elements of the list that the loop of dfs appends to dp: those not in met, each
\* one added to met as it is seen
NotMet(states, met) ==
    IF states = <<>> THEN <<>>
    ELSE IF Key(Head(states)) \in met THEN NotMet(Tail(states), met)
    ELSE <<Head(states)>> \o NotMet(Tail(states), met \cup {Key(Head(states))})

\* dp after the loop over important_states + other_states
DequeExtend(dp, succ, met) ==
    The({IF fixed = <<>> /\ loose = {} THEN rest
         ELSE Append(rest, [fixed |-> fixed, loose |-> loose]) :
            rest \in {dp},
            fixed \in {NotMet(succ.important, met)},
            loose \in {The({{succ.other[k] :
                                k \in {m \in 1..Len(succ.other) : Key(succ.other[m]) \notin seen}} :
                            seen \in {met \cup {Key(succ.important[k]) :
                                                   k \in 1..Len(succ.important)}}})}})

InitDfs ==
    /\ start_state \in DfsStartStates
    /\ is_valid_state(start_state) = TRUE
    /\ state = start_state
    /\ dfs_pc = "loop"
    /\ dfs_dp = <<[fixed |-> <<start_state>>, loose |-> {}]>>
    /\ dfs_met = {}
    /\ dfs_state = NoState
    /\ dfs_ret = NoState
    /\ AStarIdle

\* the state popped is a goal state: its solution is returned
DfsReturnSolution ==
    /\ dfs_pc = "loop"
    /\ dfs_dp # <<>>
    /\ \E s \in Tops(dfs_dp) :
          /\ s # NoState
          /\ is_goal_state(s)
          /\ dfs_state' = s
          /\ dfs_dp' = DequePop(dfs_dp, s)
          /\ dfs_ret' = [solution |-> s.solution]
    /\ dfs_pc' = "returned"
    /\ UNCHANGED <<start_state, state, dfs_met, asVars>>

\* Keys with nothing kept: met.add(s) left out
KeysForgotten(states) == {}

\* the keys of the states of a list
Keys(states) == {Key(states[k]) : k \in 1..Len(states)}

\* the body of the loop of dfs for the state s popped and what get_successors returned
DfsPush(s, succ) ==
    /\ dfs_state' = s
    /\ IF succ = Raised
       THEN /\ dfs_pc' = "raised"
            /\ dfs_dp' = DequePop(dfs_dp, s)
            /\ dfs_met' = dfs_met
       ELSE /\ dfs_pc' = "loop"
            /\ dfs_dp' = DequeExtend(DequePop(dfs_dp, s), succ, dfs_met)
            /\ dfs_met' = dfs_met \cup Keys(succ.important) \cup Keys(succ.other)

\* the state popped is no goal state: its successors are pushed.  A None popped makes
\* is_goal_state raise, and an assertion of the cascade goes through dfs.
DfsExpand ==
    /\ dfs_pc = "loop"
    /\ dfs_dp # <<>>
    /\ \E s \in Tops(dfs_dp) :
          /\ s = NoState \/ ~is_goal_state(s)
          /\ \E succ \in {IF s = NoState THEN Raised ELSE get_successors(s)} :
                DfsPush(s, succ)
    /\ UNCHANGED <<start_state, state, dfs_ret, asVars>>

\* dp is empty: the loop ends and dfs returns None
DfsReturnNone ==
    /\ dfs_pc = "loop"
    /\ dfs_dp = <<>>
    /\ dfs_pc' = "returned"
    /\ dfs_ret' = NoState
    /\ UNCHANGED <<start_state, state, dfs_dp, dfs_met, dfs_state, asVars>>

NextDfs == DfsReturnSolution \/ DfsExpand \/ DfsReturnNone

\* dfs is one thread that runs on as long as it has a step to take
SpecDfs == InitDfs /\ [][NextDfs]_vars /\ WF_vars(NextDfs)

(***************************************************************************)
(* search.a_star_solver.  The numbers f are kept as integers: a float f is *)
(* the integer kept here over HScale, which is exact as long as            *)
(* (TOTAL_STEP - LAST_N_STEP) / HDen is a float without rounding.          *)
(***************************************************************************)
\* the 27 of score and dig_out_distance: the number of the cards with a rank
NUMBER_CARDS == Len(GOALS) * TOP_RANK

TOTAL_STEP == 100

LAST_N_STEP == 7

INITIAL_H == 100

ValueError == [raised |-> "ValueError"]

AttributeError == [raised |-> "AttributeError"]

ZeroDivisionError == [raised |-> "ZeroDivisionError"]

\* 27 - LAST_N_STEP, the divisor of average_step
HDen == NUMBER_CARDS - LAST_N_STEP

\* what the numbers f are multiplied by, to be integers
HScale == IF HDen < 0 THEN 0 - HDen ELSE HDen

\* padding of dig_out_distance, times HScale
Padding(complete) ==
    IF complete > HDen THEN (NUMBER_CARDS - complete) * HScale
    ELSE complete * (TOTAL_STEP - LAST_N_STEP) * (IF HDen < 0 THEN 0 - 1 ELSE 1)

\* the list dig_out_distances, as a set: for each target card of a column the number of
\* cards above it.  The second comprehension goes through the keys of goal_buffer, none
\* of which is a target, and adds nothing.
DigOutDistances(s) ==
    LET targets == {x \o StrOfNum(s.goal_buffer[x] + 1) : x \in GoalSet}
        above(i) == {Len(s.deck[i]) - m :
                        m \in {n \in 1..Len(s.deck[i]) : s.deck[i][n] \in targets}}
    IN  UNION {above(i) : i \in 1..Len(s.deck)}
        \cup {0 : x \in {y \in GoalSet : y \in targets}}

\* dig_out_distance: [value |-> the number returned, times HScale], or the exception
\* raised; min of an empty list raises ValueError
heuristic(s) ==
    IF s = NoState THEN AttributeError
    ELSE IF HDen = 0 THEN ZeroDivisionError
    ELSE IF DigOutDistances(s) = {} THEN ValueError
    ELSE [value |-> MinOf(DigOutDistances(s)) * HScale + Padding(GoalSum(s))]

\* a < b on the tuples (f, cost, state) of the heap
TupleLess(a, b) ==
    IF a.f # b.f THEN a.f < b.f
    ELSE IF a.cost # b.cost THEN a.cost < b.cost
    ELSE IF ~Eq(a.state, b.state) THEN Lt(a.state, b.state)
    ELSE FALSE

RECURSIVE SiftDown(_, _, _, _)
\* heapq._siftdown, with 0-based positions
SiftDown(heap, startpos, pos, newitem) ==
    IF pos > startpos /\ TupleLess(newitem, heap[((pos - 1) \div 2) + 1])
    THEN SiftDown([heap EXCEPT ![pos + 1] = heap[((pos - 1) \div 2) + 1]],
                  startpos, (pos - 1) \div 2, newitem)
    ELSE [heap EXCEPT ![pos + 1] = newitem]

RECURSIVE SiftUp(_, _, _, _)
\* heapq._siftup, with 0-based positions
SiftUp(heap, startpos, pos, newitem) ==
    IF 2 * pos + 1 < Len(heap)
    THEN LET childpos == 2 * pos + 1
             rightpos == childpos + 1
             smaller == IF rightpos < Len(heap)
                           /\ ~TupleLess(heap[childpos + 1], heap[rightpos + 1])
                        THEN rightpos ELSE childpos
         IN  SiftUp([heap EXCEPT ![pos + 1] = heap[smaller + 1]], startpos, smaller, newitem)
    ELSE SiftDown([heap EXCEPT ![pos + 1] = newitem], startpos, pos, newitem)

\* heapq.heappush
heappush(heap, item) == SiftDown(Append(heap, item), 0, Len(heap), item)

\* heapq.heappop: the item popped and the heap left
heappop(heap) ==
    IF Len(heap) = 1 THEN [item |-> heap[1], heap |-> <<>>]
    ELSE [item |-> heap[1],
          heap |-> SiftUp([Pop(heap) EXCEPT ![1] = Last(heap)], 0, 0, Last(heap))]

\* the lists of k different elements of a list, in any order: random.sample, and the
\* order of list(set(...))
Arrangements(list, k) ==
    {arr \in [1..k -> 1..Len(list)] : \A i, j \in 1..k : i # j => arr[i] # arr[j]}

\* FanOut with all the successors taken, whatever their number
FanOutAll(succ) == {succ.important \o succ.other}

\* the lists the loop of a_star_solver may go through after get_successors
FanOut(succ) ==
    IF Len(succ.important) > 3 THEN {succ.important}
    ELSE LET k == IF Len(succ.important) + Len(succ.other) < 3 THEN Len(succ.other)
                  ELSE 3 - Len(succ.important)
         IN  {succ.important \o [i \in 1..k |-> succ.other[arr[i]]] :
                 arr \in Arrangements(succ.other, k)}

RECURSIVE PushAll(_, _, _, _)
\* the loop that pushes the states not in met: the heap and met after it, or the
\* exception heuristic raised
PushAll(heap, met, states, cost) ==
    IF states = <<>> THEN [heap |-> heap, met |-> met]
    ELSE IF Key(Head(states)) \in met THEN PushAll(heap, met, Tail(states), cost)
    ELSE LET h == heuristic(Head(states))
         IN  IF h \in {ValueError, AttributeError, ZeroDivisionError} THEN h
             ELSE PushAll(heappush(heap, [f |-> (cost + 1) * HScale + h.value,
                                          cost |-> cost + 1,
                                          state |-> Head(states)]),
                          met \cup {Key(Head(states))}, Tail(states), cost)

\* the deals a_star_solver is run on
AStarPacks == {1, 2, 4}

AStarStartStates == {StartState(Packs[p], cut) : p \in AStarPacks, cut \in Cuts}

\* the values of max_depth
MaxDepths == {None, 0, 1, 2}

\* the pops a run is followed for
MaxPops == 4

InitAStar ==
    /\ start_state \in AStarStartStates
    /\ is_valid_state(start_state) = TRUE
    /\ state = start_state
    /\ DfsIdle
    /\ as_max_depth \in MaxDepths
    /\ as_pc = "loop"
    /\ as_dp = <<[f |-> INITIAL_H * HScale, cost |-> 0, state |-> start_state]>>
    /\ as_met = {}
    /\ as_state = NoState
    /\ as_pops = 0
    /\ as_ret = NoState

\* the end of an iteration: the states of the list chosen are pushed
AStarPush(heap, cost, states) ==
    \E pushed \in {PushAll(heap, as_met, states, cost)} :
        IF pushed \in {ValueError, AttributeError, ZeroDivisionError}
        THEN /\ as_pc' = "raised"
             /\ as_ret' = pushed
             /\ as_dp' = heap
             /\ as_met' = as_met
        ELSE /\ as_pc' = "loop"
             /\ as_ret' = as_ret
             /\ as_dp' = pushed.heap
             /\ as_met' = pushed.met

\* one iteration of the while loop for the entry popped: the search is given up, the
\* solution of a goal state is returned, or the successors are pushed
AStarIterate(popped) ==
    /\ as_state' = popped.item.state
    /\ as_pops' = as_pops + 1
    /\ IF as_max_depth # None /\ as_max_depth # 0 /\ popped.item.cost > as_max_depth
       THEN /\ as_pc' = "returned"
            /\ as_ret' = NoState
            /\ as_dp' = popped.heap
            /\ as_met' = as_met
       ELSE IF is_goal_state(popped.item.state)
       THEN /\ as_pc' = "returned"
            /\ as_ret' = [solution |-> popped.item.state.solution]
            /\ as_dp' = popped.heap
            /\ as_met' = as_met
       ELSE \E succ \in {get_successors(popped.item.state)} :
               IF succ = Raised
               THEN /\ as_pc' = "raised"
                    /\ as_ret' = Raised
                    /\ as_dp' = popped.heap
                    /\ as_met' = as_met
               ELSE \E states \in FanOut(succ) :
                       AStarPush(popped.heap, popped.item.cost, states)

\* the while loop of a_star_solver: an iteration, or None returned when the heap is empty
AStarStep ==
    /\ as_pc = "loop"
    /\ as_pops < MaxPops
    /\ IF as_dp = <<>>
       THEN /\ as_pc' = "returned"
            /\ as_ret' = NoState
            /\ UNCHANGED <<as_dp, as_met, as_state, as_pops>>
       ELSE \E popped \in {heappop(as_dp)} : AStarIterate(popped)
    /\ UNCHANGED <<start_state, state, dfsVars, as_max_depth>>

NextAStar == AStarStep

SpecAStar == InitAStar /\ [][NextAStar]_vars

(***************************************************************************)
(* What the claims speak of                                                *)
(***************************************************************************)
\* the actions get_successors applies to a state
CandidateActions(s) ==
    LET acts == ImportantActions(s) \o OtherActions(s)
    IN  {acts[k] : k \in 1..Len(acts)}

\* the states get_successors returns
SuccessorStates(s) ==
    LET r == get_successors(s)
    IN  {r.important[k] : k \in 1..Len(r.important)} \cup {r.other[k] : k \in 1..Len(r.other)}

\* the action that made the successor t of s
ProducedBy(t, s) == t.solution[Len(s.solution) + 1]

SourceOf(a) == <<a.source, a.source_position>>

DestinationOf(a) == <<a.to, a.to_position>>

\* whether the action a has the position X as its source or destination; a Collect
\* counts as touching any position
Touches(a, X) ==
    IF a.kind = "MoveAction" THEN SourceOf(a) = X \/ DestinationOf(a) = X
    ELSE IF a.kind = "ScoreAction" THEN SourceOf(a) = X
    ELSE TRUE

\* the states from the start state to the one held, those inside the cascades included
Chain == Lineage(start_state, state.solution)

\* two lists with the same elements, each as many times
SameBag(s, t) ==
    /\ Len(s) = Len(t)
    /\ \A k \in 1..Len(s) : Count(s, s[k]) = Count(t, s[k])

SameComponents(s, t) ==
    /\ SameBag(s.deck, t.deck)
    /\ SameBag(s.buffer_area, t.buffer_area)
    /\ s.goal_buffer = t.goal_buffer
    /\ s.flower_in_deck = t.flower_in_deck

(***************************************************************************)
(* C1.  After a MoveAction from P to Q, and as long as no later action     *)
(* touches P or Q, get_successors returns no successor made by a           *)
(* MoveAction out of P or Q; once a later action touches P or Q, neither   *)
(* is locked.                                                              *)
(***************************************************************************)
C1_LockedSourcesNotMoved ==
    (~is_goal_state(state) /\ get_successors(state) # Raised) =>
    \A k \in 1..Len(state.solution) :
        state.solution[k].kind = "MoveAction" =>
        LET P == SourceOf(state.solution[k])
            Q == DestinationOf(state.solution[k])
            untouched == \A m \in (k + 1)..Len(state.solution) :
                            ~Touches(state.solution[m], P) /\ ~Touches(state.solution[m], Q)
        IN  IF untouched
            THEN \A t \in SuccessorStates(state) \ {NoState} :
                    ~(/\ ProducedBy(t, state).kind = "MoveAction"
                      /\ SourceOf(ProducedBy(t, state)) \in {P, Q})
            ELSE {P, Q} \cap DOMAIN state.locked_to_keys = {}

(***************************************************************************)
(* C2.  An action whose result has a hash of the history is refused        *)
(* (take_action returns None), and the states of a chain of take_action    *)
(* calls from the start state have pairwise different hashes.              *)
(***************************************************************************)
C2_RevisitRejected ==
    LET chain == Chain
    IN  /\ \A a \in CandidateActions(state) :
              Hash(ApplyAction(state, a)) \in state.history =>
                  /\ take_action(state, a, TRUE) = NoState
                  /\ take_action(state, a, FALSE) = NoState
        /\ Len(chain) = Len(state.solution) + 1
        /\ chain[Len(chain)] = state
        /\ \A i, j \in 1..Len(chain) : i < j => Hash(chain[i]) # Hash(chain[j])

\* a relocation that would bring back a configuration left two or more steps ago
C2_Witness ==
    LET chain == Chain
    IN  /\ Len(chain) >= 3
        /\ \E a \in CandidateActions(state) :
              /\ a.kind = "MoveAction"
              /\ \E i \in 1..(Len(chain) - 2) : Hash(ApplyAction(state, a)) = Hash(chain[i])
              /\ take_action(state, a, TRUE) = NoState

(***************************************************************************)
(* C3.  The cascade is idempotent: auto_proceed on a state it has returned *)
(* changes neither the columns, the buffer, the foundations, the flower    *)
(* flag nor the solution.  The states it is run on are the start state,    *)
(* the states the caller holds and the states take_action hands it.        *)
(***************************************************************************)
C3_CascadeIdempotent ==
    \A s \in {state} \cup {TakeStep(state, a) : a \in CandidateActions(state)} :
        (s \notin {NoState, Raised} /\ auto_proceed(s) # Raised) =>
            LET once == auto_proceed(s)
                twice == auto_proceed(once)
            IN  /\ twice # Raised
                /\ twice.deck = once.deck
                /\ twice.buffer_area = once.buffer_area
                /\ twice.goal_buffer = once.goal_buffer
                /\ twice.flower_in_deck = once.flower_in_deck
                /\ twice.solution = once.solution

(***************************************************************************)
(* C4.  Two states that are equal (__eq__) have the same columns as a      *)
(* multiset, the same buffer cards as a multiset, the same foundations and *)
(* the same flower flag.  The pairs are a state the caller holds and the   *)
(* configuration an action makes of it.                                    *)
(***************************************************************************)
C4_EqualOnlyIfSameComponents ==
    \A a \in CandidateActions(state) :
        Eq(state, ApplyAction(state, a)) => SameComponents(state, ApplyAction(state, a))

(***************************************************************************)
(* C5.  A state with its columns permuted, or the cards of its buffer      *)
(* permuted, is equal to the state and has its hash; so has a state that   *)
(* differs in its solution, its history and its lock maps only.            *)
(***************************************************************************)
C5_PermutationInvariant ==
    /\ \A pc \in Permutations(1..Len(state.deck)) :
       \A pb \in Permutations(1..Len(state.buffer_area)) :
          LET t == [state EXCEPT
                       !.deck = [i \in 1..Len(state.deck) |-> state.deck[pc[i]]],
                       !.buffer_area = [i \in 1..Len(state.buffer_area) |->
                                           state.buffer_area[pb[i]]]]
          IN  Hash(t) = Hash(state) /\ Eq(t, state)
    /\ LET t == [state EXCEPT !.solution = start_state.solution,
                              !.history = start_state.history,
                              !.locked_to_keys = (<<"deck", 0>> :> <<<<"deck", 0>>>>),
                              !.key_to_locked = (<<"deck", 0>> :> <<"deck", 0>>)]
       IN  Hash(t) = Hash(state) /\ Eq(t, state)

\* a state whose columns and whose buffer are not in their sorted order
C5_Witness ==
    /\ Len(state.buffer_area) >= 2
    /\ Sorted(state.buffer_area) # state.buffer_area
    /\ Sorted([i \in 1..Len(state.deck) |-> ConcatAll(state.deck[i])])
          # [i \in 1..Len(state.deck) |-> ConcatAll(state.deck[i])]
    /\ Len(state.solution) >= 2

(***************************************************************************)
(* C6.  a_star_solver with max_depth = 0, on a start state that is no goal *)
(* state, returns no solution and expands no state but the start state: a  *)
(* state popped that is not the start state makes it return None.          *)
(***************************************************************************)
C6_DepthZeroStopsAtStart ==
    (as_max_depth = 0 /\ ~is_goal_state(start_state)) =>
        /\ as_pc = "returned" => as_ret = NoState
        /\ as_state \notin {NoState, start_state} => as_pc = "returned"

(***************************************************************************)
(* C7.  In every state of a chain, the states inside the cascades          *)
(* included, the buffer holds at most buffer_size cards, and buffer_size   *)
(* is ORIGINAL_BUFFER_SIZE less the number of colours collected.           *)
(***************************************************************************)
C7_BufferWithinSize ==
    LET chain == Chain
    IN  \A k \in 1..Len(chain) :
            /\ chain[k] \notin {NoState, Raised}
            /\ Len(chain[k].buffer_area) <= chain[k].buffer_size
            /\ chain[k].buffer_size
                  = ORIGINAL_BUFFER_SIZE - Cardinality({x \in GoalSet : chain[k].collected[x]})

\* a full buffer after a colour was collected
C7_Witness ==
    /\ \E x \in GoalSet : state.collected[x]
    /\ state.buffer_area # <<>>
    /\ Len(state.buffer_area) = state.buffer_size

(***************************************************************************)
(* C8.  Every state of a chain keeps the accounts of the cards: the flower *)
(* is among the cards iff flower_in_deck; of each colour either all the    *)
(* cards are in play and the colour is not collected, or none is and it is *)
(* collected; of each suit the ranks in play are those above the           *)
(* foundation, each once.                                                  *)
(***************************************************************************)
C8_CardAccounting ==
    LET chain == Chain
    IN  \A k \in 1..Len(chain) :
            LET s == chain[k]
                cards == AllCards(s)
            IN  /\ s \notin {NoState, Raised}
                /\ Count(cards, FLOWER) = (IF s.flower_in_deck THEN 1 ELSE 0)
                /\ \A x \in GoalSet :
                      \/ Count(cards, x) = COLOR_COPIES /\ ~s.collected[x]
                      \/ Count(cards, x) = 0 /\ s.collected[x]
                /\ \A x \in GoalSet : \A n \in 1..TOP_RANK :
                      Count(cards, x \o StrOfNum(n)) = (IF n > s.goal_buffer[x] THEN 1 ELSE 0)

\* a state with a card scored, a colour collected and the flower gone
C8_Witness ==
    /\ \E x \in GoalSet : state.goal_buffer[x] > 0
    /\ \E x \in GoalSet : state.collected[x]
    /\ ~state.flower_in_deck

(***************************************************************************)
(* C9.  When dfs returns a solution, take_actions replays it from the      *)
(* start state without a rejected action, and ends in the goal state dfs   *)
(* popped: the three foundations at the top rank.                          *)
(***************************************************************************)
C9_SolutionReplays ==
    (dfs_pc = "returned" /\ dfs_ret # NoState) =>
        LET replay == Lineage(start_state, dfs_ret.solution)
            end == take_actions(start_state, dfs_ret.solution)
        IN  /\ Len(replay) = Len(dfs_ret.solution) + 1
            /\ \A k \in 1..Len(replay) : replay[k] \notin {NoState, Raised}
            /\ end \notin {NoState, Raised}
            /\ end = replay[Len(replay)]
            /\ \A x \in GoalSet : end.goal_buffer[x] = TOP_RANK
            /\ end = dfs_state

\* a solution returned that holds relocations, scores and a Collect
C9_Witness ==
    /\ dfs_pc = "returned"
    /\ dfs_ret # NoState
    /\ \A kind \in {"MoveAction", "ScoreAction", "CollectAction"} :
          \E k \in 1..Len(dfs_ret.solution) : dfs_ret.solution[k].kind = kind

\* the cascade after an action ends: it collects the flower at most once, and each
\* further step of it raises a foundation
CascadeBounded ==
    (dfs_state # NoState /\ ~is_goal_state(dfs_state) /\ get_successors(dfs_state) # Raised) =>
        \A t \in SuccessorStates(dfs_state) \ {NoState} :
            Len(t.solution) - Len(dfs_state.solution) <= 2 + GoalSum(t) - GoalSum(dfs_state)

(***************************************************************************)
(* C10.  dfs ends: it comes to return, the solution of a goal state it     *)
(* popped or None once its stack is empty; and the cascade inside each     *)
(* transition ends, after a number of steps the foundations bound.         *)
(***************************************************************************)
C10_DfsTerminates == <>(dfs_pc = "returned") /\ []CascadeBounded

\* dfs has returned None, its stack empty, after it had pushed states
C10_Witness ==
    /\ dfs_pc = "returned"
    /\ dfs_ret = NoState
    /\ dfs_dp = <<>>
    /\ Cardinality(dfs_met) > 3

(***************************************************************************)
(* C11.  In dfs, of the successors one expansion has pushed, those by a    *)
(* Score or a Collect are all popped before any of those by a relocation:  *)
(* a step that pops a successor by a relocation finds no successor by a    *)
(* Score or a Collect of the same expansion left on the stack.             *)
(***************************************************************************)
C11_ImportantPoppedFirst ==
    [][(/\ dfs_pc = "loop"
        /\ dfs_dp # <<>>
        /\ dfs_state' \in Last(dfs_dp).loose
        /\ dfs_dp' # dfs_dp)
       => Last(dfs_dp).fixed = <<>>]_vars

(***************************************************************************)
(* The objects of the program.  A heap is a list of objects, the address   *)
(* of an object its index.  A GameState is an object whose fields hold     *)
(* the addresses of its lists, dicts and set (a column is an object, and   *)
(* deck the list of the addresses of the columns) and the values of its    *)
(* numbers and booleans.  Cards, actions, tuples and hashes are values:    *)
(* the program has no way to change them.  (So are the lists `keys` that   *)
(* _lock_state stores: they are never changed once made.)                  *)
(***************************************************************************)
\* the state the caller holds, as objects: what __init__ and the calls since have built
Load(s) ==
    LET n == Len(s.deck)
    IN  [k \in 1..n |-> s.deck[k]]
        \o <<[k \in 1..n |-> k], s.buffer_area, s.goal_buffer, s.collected, s.solution,
             s.history, s.locked_to_keys, s.key_to_locked,
             [deck |-> n + 1, buffer_area |-> n + 2, goal_buffer |-> n + 3,
              collected |-> n + 4, solution |-> n + 5, history |-> n + 6,
              locked_to_keys |-> n + 7, key_to_locked |-> n + 8,
              buffer_size |-> s.buffer_size, flower_in_deck |-> s.flower_in_deck]>>

\* the GameState whose object is at the address ref
Deref(heap, ref) ==
    LET self == heap[ref]
    IN  [buffer_area |-> heap[self.buffer_area],
         buffer_size |-> self.buffer_size,
         goal_buffer |-> heap[self.goal_buffer],
         collected |-> heap[self.collected],
         deck |-> [k \in 1..Len(heap[self.deck]) |-> heap[heap[self.deck][k]]],
         flower_in_deck |-> self.flower_in_deck,
         solution |-> heap[self.solution],
         history |-> heap[self.history],
         locked_to_keys |-> heap[self.locked_to_keys],
         key_to_locked |-> heap[self.key_to_locked]]

\* the addresses of the objects of the GameState at ref
Reach(heap, ref) ==
    LET self == heap[ref]
    IN  {ref, self.deck, self.buffer_area, self.goal_buffer, self.collected, self.solution,
         self.history, self.locked_to_keys, self.key_to_locked}
        \cup {heap[self.deck][k] : k \in 1..Len(heap[self.deck])}

\* copy with state.deck = list(self.deck): a new list of the same columns
copyColumnsShared(heap, ref) ==
    LET self == heap[ref]
        base == Len(heap)
    IN  heap \o <<heap[self.deck], heap[self.buffer_area], heap[self.goal_buffer],
                  heap[self.collected], heap[self.solution], heap[self.history],
                  heap[self.locked_to_keys], heap[self.key_to_locked],
                  [self EXCEPT !.deck = base + 1, !.buffer_area = base + 2,
                               !.goal_buffer = base + 3, !.collected = base + 4,
                               !.solution = base + 5, !.history = base + 6,
                               !.locked_to_keys = base + 7, !.key_to_locked = base + 8]>>

\* GameState.copy: the heap with the new object, the last one of it, and the new lists,
\* dicts and set it holds
copy(heap, ref) ==
    LET self == heap[ref]
        base == Len(heap)
        columns == heap[self.deck]
        n == Len(columns)
    IN  heap \o [k \in 1..n |-> heap[columns[k]]]
             \o <<[k \in 1..n |-> base + k], heap[self.buffer_area], heap[self.goal_buffer],
                  heap[self.collected], heap[self.solution], heap[self.history],
                  heap[self.locked_to_keys], heap[self.key_to_locked],
                  [self EXCEPT !.deck = base + n + 1, !.buffer_area = base + n + 2,
                               !.goal_buffer = base + n + 3, !.collected = base + n + 4,
                               !.solution = base + n + 5, !.history = base + n + 6,
                               !.locked_to_keys = base + n + 7,
                               !.key_to_locked = base + n + 8]>>

\* new_state.buffer_area = [...]: the CollectAction of a colour gives the state a new list
Rebind(heap, ref, action) ==
    IF action.kind = "CollectAction" /\ action.target # FLOWER_TARGET
    THEN Append([heap EXCEPT ![ref].buffer_area = Len(heap) + 1], <<>>)
    ELSE heap

\* the changes take_action makes in place, through new_state: the objects of the state at
\* ref are given the contents of the value v
Mutate(heap, ref, v) ==
    LET self == heap[ref]
        columns == heap[self.deck]
    IN  [a \in 1..Len(heap) |->
            IF a = ref THEN [self EXCEPT !.buffer_size = v.buffer_size,
                                         !.flower_in_deck = v.flower_in_deck]
            ELSE IF a = self.buffer_area THEN v.buffer_area
            ELSE IF a = self.goal_buffer THEN v.goal_buffer
            ELSE IF a = self.collected THEN v.collected
            ELSE IF a = self.solution THEN v.solution
            ELSE IF a = self.history THEN v.history
            ELSE IF a = self.locked_to_keys THEN v.locked_to_keys
            ELSE IF a = self.key_to_locked THEN v.key_to_locked
            ELSE IF \E k \in 1..Len(columns) : columns[k] = a
            THEN v.deck[CHOOSE k \in 1..Len(columns) : columns[k] = a]
            ELSE heap[a]]

\* take_action on objects, from the test of the history on: the heap left and what is
\* returned, the address of new_state or None
TestHistoryHeap(heap, new_state, applied, action) ==
    IF Hash(applied) \in applied.history THEN [heap |-> heap, ret |-> NoState]
    ELSE The({IF done = Raised THEN [heap |-> heap, ret |-> Raised]
              ELSE [heap |-> Mutate(heap, new_state, done), ret |-> [ref |-> new_state]] :
                 done \in {Commit(LockThenUnlock(applied, action), action)}})

\* take_action on objects, after the copy: the cards are moved in new_state
ApplyHeap(heap, new_state, action) ==
    The({TestHistoryHeap(Mutate(Rebind(heap, new_state, action), new_state, applied),
                         new_state, applied, action) :
            applied \in {ApplyAction(Deref(heap, new_state), action)}})

\* take_action with auto_proceed=False, on the object at ref
TakeStepHeap(heap, ref, action) ==
    IF is_action_locked(Deref(heap, ref), action) THEN [heap |-> heap, ret |-> NoState]
    ELSE The({ApplyHeap(copied, Len(copied), action) : copied \in {copy(heap, ref)}})

RECURSIVE AutoPutLoopHeap(_, _)
RECURSIVE AssertThenLoopHeap(_)
\* the while loop of auto_proceed, on objects: the state it is at is returned itself
\* when nothing is scored
AutoPutLoopHeap(heap, ref) ==
    The({IF AutoTarget(s) = None THEN [heap |-> heap, ret |-> [ref |-> ref]]
         ELSE AssertThenLoopHeap(
                  TakeStepHeap(heap, ref, ScoreAction(AutoCard(s), "deck", AutoTarget(s)))) :
            s \in {Deref(heap, ref)}})

AssertThenLoopHeap(r) ==
    IF r.ret \in {NoState, Raised} THEN [heap |-> r.heap, ret |-> Raised]
    ELSE AutoPutLoopHeap(r.heap, r.ret.ref)

\* Game.auto_proceed, on objects
auto_proceed_heap(heap, ref) ==
    IF FlowerOnTop(Deref(heap, ref))
    THEN The({AssertThenLoopHeap(r) :
                 r \in {TakeStepHeap(heap, ref, CollectAction(FLOWER_TARGET))}})
    ELSE AutoPutLoopHeap(heap, ref)

\* Game.take_action, on objects
take_action_heap(heap, ref, action, auto) ==
    The({IF r.ret \in {NoState, Raised} \/ ~auto THEN r
         ELSE auto_proceed_heap(r.heap, r.ret.ref) :
            r \in {TakeStepHeap(heap, ref, action)}})

RECURSIVE TakeAllHeap(_, _, _)
\* the take_action calls of get_successors, one after the other on the same heap
TakeAllHeap(heap, ref, actions) ==
    IF actions = <<>> THEN [heap |-> heap, rets |-> <<>>]
    ELSE The({The({[heap |-> rest.heap, rets |-> <<r.ret>> \o rest.rets] :
                      rest \in {TakeAllHeap(r.heap, ref, Tail(actions))}}) :
                 r \in {take_action_heap(heap, ref, Head(actions), TRUE)}})

\* what a call on objects has returned, as the value the call on values returns
Returned(r) == IF r.ret \in {NoState, Raised} THEN r.ret ELSE Deref(r.heap, r.ret.ref)

\* the call left every object there was before it as it was
Untouched(before, after) == SubSeq(after, 1, Len(before)) = before

(***************************************************************************)
(* C12.  take_action, auto_proceed and get_successors leave every object   *)
(* of their argument state as it was, for an action accepted and for one   *)
(* rejected; a state take_action returns is made of new objects only, so   *)
(* that no later change of it is a change of the argument; and what they   *)
(* return holds the values of the transition engine.                       *)
(***************************************************************************)
C12_ArgumentNotModified ==
    LET heap == Load(state)
        ref == Len(heap)
        all == TakeAllHeap(heap, ref, ImportantActions(state) \o OtherActions(state))
        proceeded == auto_proceed_heap(heap, ref)
    IN  /\ Deref(heap, ref) = state
        /\ \A a \in CandidateActions(state) : \A auto \in BOOLEAN :
              LET r == take_action_heap(heap, ref, a, auto)
              IN  /\ Untouched(heap, r.heap)
                  /\ Returned(r) = take_action(state, a, auto)
                  /\ r.ret \notin {NoState, Raised} =>
                        \A adr \in Reach(r.heap, r.ret.ref) : adr > Len(heap)
        /\ Untouched(heap, proceeded.heap)
        /\ Returned(proceeded) = auto_proceed(state)
        /\ Untouched(heap, all.heap)
        /\ \A i, j \in 1..Len(all.rets) :
              (i # j /\ all.rets[i] \notin {NoState, Raised}
                     /\ all.rets[j] \notin {NoState, Raised}) =>
                 Reach(all.heap, all.rets[i].ref) \cap Reach(all.heap, all.rets[j].ref) = {}

\* a state with an action rejected, an action followed by a cascade and the
\* CollectAction of a colour among those get_successors applies
C12_Witness ==
    /\ Len(state.solution) >= 1
    /\ \E a \in CandidateActions(state) : take_action(state, a, TRUE) = NoState
    /\ \E a \in CandidateActions(state) :
          /\ take_action(state, a, TRUE) \notin {NoState, Raised}
          /\ Len(take_action(state, a, TRUE).solution) >= Len(state.solution) + 2
    /\ \E a \in CandidateActions(state) :
          /\ a.kind = "CollectAction"
          /\ take_action(state, a, TRUE) \notin {NoState, Raised}

\* whether the card of the action a is at the place a takes it from in the state s:
\* on top of its column, or in the buffer at its index
AtSource(s, a) ==
    IF a.source = "deck"
    THEN /\ a.source_position + 1 \in 1..Len(s.deck)
         /\ s.deck[a.source_position + 1] # <<>>
         /\ Last(s.deck[a.source_position + 1]) = a.card
    ELSE /\ a.source = "buffer"
         /\ a.source_position + 1 \in 1..Len(s.buffer_area)
         /\ s.buffer_area[a.source_position + 1] = a.card

(***************************************************************************)
(* C13.  Every ScoreAction of a chain, one of get_successors or one of the *)
(* cascade, scores a card that is on top of its column or in the buffer    *)
(* and whose rank is the foundation of its suit plus one, and raises that  *)
(* foundation by one and no other; no other action changes a foundation.   *)
(* So do the ScoreActions get_successors is about to apply.                *)
(***************************************************************************)
C13_ScoresNextRank ==
    LET chain == Chain
    IN  /\ Len(chain) = Len(state.solution) + 1
        /\ \A k \in 1..Len(state.solution) :
              LET a == state.solution[k]
                  s == chain[k]
                  t == chain[k + 1]
              IN  /\ t \notin {NoState, Raised}
                  /\ IF a.kind = "ScoreAction"
                     THEN /\ AtSource(s, a)
                          /\ get_num(a.card) = s.goal_buffer[get_type(a.card)] + 1
                          /\ t.goal_buffer = [s.goal_buffer EXCEPT ![get_type(a.card)] = @ + 1]
                     ELSE t.goal_buffer = s.goal_buffer
        /\ \A a \in CandidateActions(state) :
              a.kind = "ScoreAction" =>
                 /\ AtSource(state, a)
                 /\ get_num(a.card) = state.goal_buffer[get_type(a.card)] + 1

\* a chain with a card scored out of the buffer and one scored from a column
C13_Witness ==
    /\ \E k \in 1..Len(state.solution) :
          state.solution[k].kind = "ScoreAction" /\ state.solution[k].source = "buffer"
    /\ \E k \in 1..Len(state.solution) :
          state.solution[k].kind = "ScoreAction" /\ state.solution[k].source = "deck"

(***************************************************************************)
(* C14.  get_successors applies every legal relocation out of the buffer:  *)
(* for every buffer card with a rank, at any index i, and every column j   *)
(* that is not empty and whose top card is of another suit and of the rank *)
(* of the card plus one, MoveAction(card, buffer, i, deck, j) is one of    *)
(* the actions it applies.                                                 *)
(***************************************************************************)
C14_BufferMovesAllProposed ==
    \A i \in 0..(Len(state.buffer_area) - 1) : \A j \in 0..(Len(state.deck) - 1) :
        LET card == state.buffer_area[i + 1]
            col == state.deck[j + 1]
        IN  (/\ get_num(card) # None
             /\ col # <<>>
             /\ get_type(Last(col)) # get_type(card)
             /\ get_num(Last(col)) = get_num(card) + 1)
            => MoveAction(card, "buffer", i, "deck", j) \in CandidateActions(state)

\* the cards needed next: of each suit the rank above its foundation
NextNeeded(s) == {x \o StrOfNum(s.goal_buffer[x] + 1) : x \in GoalSet}

\* the dig-out depths of the cards needed next: the number of cards above one that lies
\* in a column, 0 for one that lies in the buffer
DigOutDepths(s) ==
    UNION {{Len(s.deck[i]) - n : n \in {m \in 1..Len(s.deck[i]) : s.deck[i][m] \in NextNeeded(s)}} :
              i \in 1..Len(s.deck)}
    \cup {0 : k \in {m \in 1..Len(s.buffer_area) : s.buffer_area[m] \in NextNeeded(s)}}

(***************************************************************************)
(* C15.  For every successor that is no goal state, of a state             *)
(* a_star_solver expands, the heuristic is a number and no exception, and  *)
(* it is the padding plus the least dig-out depth of the cards needed      *)
(* next: the cards above such a card in its column, 0 when such a card is  *)
(* in the buffer.                                                          *)
(***************************************************************************)
C15_HeuristicDefined ==
    (/\ as_pc \in {"loop", "raised"}
     /\ as_state # NoState
     /\ ~is_goal_state(as_state)
     /\ get_successors(as_state) # Raised) =>
        \A t \in SuccessorStates(as_state) \ {NoState} :
            ~is_goal_state(t) =>
                /\ heuristic(t) \notin {ValueError, AttributeError, ZeroDivisionError}
                /\ DigOutDepths(t) # {}
                /\ heuristic(t).value = MinOf(DigOutDepths(t)) * HScale + Padding(GoalSum(t))

(***************************************************************************)
(* C16.  A state take_action has returned after the cascade has no column  *)
(* whose top card is the card needed next (the foundation plus one) of a   *)
(* suit whose foundation is the lowest of the three.                       *)
(***************************************************************************)
C16_CascadeRunsOut ==
    Len(state.solution) >= 1 =>
        LET min_value == MinOf({state.goal_buffer[x] : x \in GoalSet})
        IN  \A x \in GoalSet :
                state.goal_buffer[x] = min_value =>
                    \A i \in 1..Len(state.deck) :
                        ~(/\ state.deck[i] # <<>>
                          /\ Last(state.deck[i]) = x \o StrOfNum(min_value + 1))

\* the states on the stack of dfs, from the bottom frame up
OnStack(dp) ==
    UNION {{dp[k].fixed[m] : m \in 1..Len(dp[k].fixed)} \cup dp[k].loose : k \in 1..Len(dp)}

\* the number of states on the stack of dfs
StackSize(dp) ==
    IF dp = <<>> THEN 0
    ELSE Len(ConcatAll([k \in 1..Len(dp) |-> dp[k].fixed]))
         + Cardinality(UNION {{<<k, t>> : t \in dp[k].loose} : k \in 1..Len(dp)})

\* the states a step of dfs has pushed: those on the stack after it that were not on it
Pushed == OnStack(dfs_dp') \ OnStack(dfs_dp)

\* the states on the stack have hashes different from each other, from that of the start
\* state and from that of the state popped last, and each hash is in met
StackDistinct ==
    LET stack == OnStack(dfs_dp)
    IN  /\ NoState \notin stack
        /\ Cardinality({Key(t) : t \in stack}) = StackSize(dfs_dp)
        /\ dfs_state # NoState =>
              /\ \A t \in stack : Key(t) \in dfs_met /\ Key(t) # Key(start_state)
              /\ Key(dfs_state) \notin {Key(t) : t \in stack}

(***************************************************************************)
(* C17.  In a run of dfs no state is pushed whose hash is the hash of a    *)
(* state pushed before it, and no successor with the hash of the start     *)
(* state is pushed: the states on the stack have hashes different from     *)
(* each other, from that of the start state and from those of the states   *)
(* popped; each is in met since it was made; and a step pushes only states *)
(* whose hash was not in met.                                              *)
(***************************************************************************)
C17_NoDuplicatePushed ==
    /\ []StackDistinct
    /\ [][\A t \in Pushed : Key(t) \notin dfs_met /\ Key(t) \in dfs_met']_vars

\* a step of dfs in which a successor is left out, its hash being in met, and another
\* one is pushed
C17_Witness ==
    /\ dfs_pc = "loop"
    /\ dfs_state # NoState
    /\ ~is_goal_state(dfs_state)
    /\ get_successors(dfs_state) # Raised
    /\ \E t \in SuccessorStates(dfs_state) \ {NoState} : t \notin OnStack(dfs_dp)
                                                          /\ Key(t) \in dfs_met
    /\ \E t \in SuccessorStates(dfs_state) \ {NoState} : t \in OnStack(dfs_dp)

\* the lesser of two numbers
Min2(a, b) == IF a < b THEN a ELSE b

\* the lengths of the lists the rule of the fan-out is also tried on, the lists of an
\* expansion apart: up to more than 3 important successors
MaxImportant == 5

MaxOther == 4

\* the lists FanOut makes of the two lists of get_successors are as the rule has them
FanOutAsClaimed(succ) ==
    LET ni == Len(succ.important)
        no == Len(succ.other)
    IN  /\ FanOut(succ) # {}
        /\ \A states \in FanOut(succ) :
              LET extra == SubSeq(states, ni + 1, Len(states))
              IN  /\ Len(states) >= ni
                  /\ SubSeq(states, 1, ni) = succ.important
                  /\ Len(extra) = (IF ni > 3 THEN 0 ELSE Min2(no, 3 - ni))
                  /\ \A k \in 1..Len(extra) : \E m \in 1..no : extra[k] = succ.other[m]
                  /\ \A k, m \in 1..Len(extra) : k # m => extra[k] # extra[m]
                  /\ Len(states) <= (IF ni > 3 THEN ni ELSE 3)

(***************************************************************************)
(* C18.  In an expansion of a_star_solver every list of successors the     *)
(* loop may go through begins with all the important successors; then come *)
(* other-move successors, each a different element of the list of them:    *)
(* none when there are more than 3 important successors, and otherwise     *)
(* min(|other|, 3 - |important|) of them, whatever the sample.  So the     *)
(* list is never longer than max(3, |important|).  This for the lists of   *)
(* every expansion, and for lists of every pair of lengths up to           *)
(* MaxImportant and MaxOther.                                              *)
(***************************************************************************)
C18_FanOutBounded ==
    /\ (/\ as_pc \in {"loop", "raised"}
        /\ as_state # NoState
        /\ ~is_goal_state(as_state)
        /\ get_successors(as_state) # Raised) => FanOutAsClaimed(get_successors(as_state))
    /\ \A ni \in 0..MaxImportant : \A no \in 0..MaxOther :
          FanOutAsClaimed([important |-> [k \in 1..ni |-> k], other |-> [k \in 1..no |-> ni + k]])

\* an expansion with an important successor and more other-move successors than are taken
C18_Witness ==
    /\ as_pc = "loop"
    /\ as_state # NoState
    /\ ~is_goal_state(as_state)
    /\ get_successors(as_state) # Raised
    /\ Len(get_successors(as_state).important) >= 1
    /\ Len(get_successors(as_state).important) + Len(get_successors(as_state).other) > 3
    /\ Cardinality(FanOut(get_successors(as_state))) > 1

(***************************************************************************)
(* C19.  take_action refuses no ScoreAction and no CollectAction, that of  *)
(* the flower included: for the state dfs has popped, each Score and       *)
(* Collect that get_successors applies is accepted without and with the    *)
(* cascade, no assertion of the cascade fails, the list of the important   *)
(* successors holds no None, and None is neither on the stack of dfs nor   *)
(* popped by it.                                                           *)
(***************************************************************************)
C19_ScoreCollectNeverRejected ==
    /\ dfs_pc # "raised"
    /\ NoState \notin OnStack(dfs_dp)
    /\ dfs_pc = "loop" => dfs_state # NoState \/ dfs_met = {}
    /\ (dfs_state # NoState /\ ~is_goal_state(dfs_state)) =>
          /\ \A k \in 1..Len(ImportantActions(dfs_state)) :
                /\ TakeStep(dfs_state, ImportantActions(dfs_state)[k]) \notin {NoState, Raised}
                /\ take_action(dfs_state, ImportantActions(dfs_state)[k], TRUE)
                      \notin {NoState, Raised}
          /\ FlowerOnTop(dfs_state) =>
                TakeStep(dfs_state, CollectAction(FLOWER_TARGET)) \notin {NoState, Raised}
          /\ auto_proceed(dfs_state) # Raised
          /\ get_successors(dfs_state) # Raised
          /\ \A k \in 1..Len(get_successors(dfs_state).important) :
                get_successors(dfs_state).important[k] # NoState

\* dfs has popped a state whose important successors are one by a ScoreAction followed by
\* the CollectAction of the flower in the cascade, and one by the CollectAction of a colour
C19_Witness ==
    /\ dfs_state # NoState
    /\ ~is_goal_state(dfs_state)
    /\ get_successors(dfs_state) # Raised
    /\ \E k \in 1..Len(get_successors(dfs_state).important) :
          LET t == get_successors(dfs_state).important[k]
          IN  /\ t # NoState
              /\ ProducedBy(t, dfs_state).kind = "CollectAction"
              /\ ProducedBy(t, dfs_state).target # FLOWER_TARGET
    /\ \E k \in 1..Len(get_successors(dfs_state).important) :
          LET t == get_successors(dfs_state).important[k]
          IN  /\ t # NoState
              /\ ProducedBy(t, dfs_state).kind = "ScoreAction"
              /\ Len(t.solution) >= Len(dfs_state.solution) + 2

(***************************************************************************)
(* C20.  In every state of a chain from the start state, the states inside *)
(* the cascades included, the hash of the state is in its history and the  *)
(* history holds one hash more than the solution holds actions; each       *)
(* action accepted appends itself to the solution and adds the one hash of *)
(* the state it makes, a hash the history did not hold.                    *)
(***************************************************************************)
C20_HistoryCountsSolution ==
    LET chain == Chain
    IN  /\ Len(chain) = Len(state.solution) + 1
        /\ chain[1] = start_state
        /\ chain[Len(chain)] = state
        /\ \A k \in 1..Len(chain) :
              /\ chain[k] \notin {NoState, Raised}
              /\ Hash(chain[k]) \in chain[k].history
              /\ Cardinality(chain[k].history) = Len(chain[k].solution) + 1
        /\ \A k \in 1..(Len(chain) - 1) :
              /\ chain[k + 1].solution = Append(chain[k].solution, state.solution[k])
              /\ Hash(chain[k + 1]) \notin chain[k].history
              /\ chain[k + 1].history = chain[k].history \cup {Hash(chain[k + 1])}

\* a state made by a relocation, by scores and by the CollectAction of the flower in a
\* cascade
C20_Witness ==
    /\ Len(state.solution) >= 4
    /\ Cardinality(state.history) = Len(state.solution) + 1
    /\ \E k \in 1..Len(state.solution) : state.solution[k].kind = "MoveAction"
    /\ \E k \in 1..Len(state.solution) : state.solution[k].kind = "ScoreAction"
    /\ \E k \in 1..Len(state.solution) : state.solution[k] = CollectAction(FLOWER_TARGET)

=============================================================================
